---- MODULE Spec2Model ----
(***************************************************************************)
(* Model of NMF_Binomial_Tree.py: the BinomialTree lattice builder, the    *)
(* backward-induction pricer Binomial_Tree_Pricing, the hybrid pricer      *)
(* Binomial_Black_Scholes and the two compositors                          *)
(* Avg_Binomial_Tree_Pricing and Binomial_Black_Scholes_Richardson.        *)
(*                                                                         *)
(* Numbers are exact rationals <<n, d>> (d > 0, lowest terms); a zero      *)
(* denominator stands for numpy's non-finite results (inf, -inf, nan).     *)
(* np.exp and np.sqrt have no rational value: the results of               *)
(* np.exp(vol*sqrt(dt)), np.exp((r-q)*dt) and np.exp(-r*dt) are inputs     *)
(* drawn from small sets when a lattice is built.                          *)
(***************************************************************************)
EXTENDS Integers, Sequences, FiniteSets, TLC

\* ------------------------------------------------------------ bounds
\* largest step count of the runs with varied lattice numerics
MaxN == 3
\* largest step count of the runs with one fixed lattice numeric
MaxDeepN == 8

\* ------------------------------------------------------ rational numbers
Abs(x) == IF x < 0 THEN -x ELSE x

Sign(x) == IF x < 0 THEN -1 ELSE IF x > 0 THEN 1 ELSE 0

RECURSIVE GCD(_, _)
GCD(a, b) == IF b = 0 THEN a ELSE GCD(b, a % b)

LCM(a, b) == (a \div GCD(a, b)) * b

Norm(n, d) ==
    IF d = 0 THEN <<Sign(n), 0>>
    ELSE LET g == GCD(Abs(n), Abs(d))
             s == Sign(d)
         IN  <<(s * n) \div g, (s * d) \div g>>

R(n) == <<n, 1>>

NaN == <<0, 0>>

Finite(a) == a[2] # 0

RAdd(a, b) ==
    IF a[2] = 0 \/ b[2] = 0 THEN (IF a[2] = 0 THEN a ELSE b)
    ELSE LET l == LCM(a[2], b[2])
         IN  Norm(a[1] * (l \div a[2]) + b[1] * (l \div b[2]), l)

RNeg(a) == <<-a[1], a[2]>>

RSub(a, b) == RAdd(a, RNeg(b))

RMul(a, b) ==
    LET g1 == GCD(Abs(a[1]), b[2])
        g2 == GCD(Abs(b[1]), a[2])
    IN  IF a[2] = 0 \/ b[2] = 0 THEN NaN
        ELSE <<(a[1] \div g1) * (b[1] \div g2), (a[2] \div g2) * (b[2] \div g1)>>

\* numpy float division: x/0 is inf, -inf or nan (a warning, no exception)
RDiv(a, b) ==
    IF a[2] = 0 \/ b[2] = 0 THEN NaN
    ELSE IF b[1] = 0 THEN <<Sign(a[1]), 0>>
    ELSE RMul(a, Norm(b[2], b[1]))

RLe(a, b) == LET l == LCM(a[2], b[2]) IN a[1] * (l \div a[2]) <= b[1] * (l \div b[2])

RLt(a, b) == RLe(a, b) /\ a # b

RMax(a, b) == IF RLe(b, a) THEN a ELSE b

RMin(a, b) == IF RLe(a, b) THEN a ELSE b

RECURSIVE IPow(_, _)
IPow(b, k) == IF k = 0 THEN 1 ELSE b * IPow(b, k - 1)

\* a ** k for a finite a # 0 in lowest terms and any integer k
RPow(a, k) ==
    IF k >= 0 THEN <<IPow(a[1], k), IPow(a[2], k)>>
    ELSE Norm(IPow(a[2], -k), IPow(a[1], -k))

\* Python's int(N / 2) under true division: truncation toward zero
IntHalf(n) == IF n >= 0 THEN n \div 2 ELSE -((-n) \div 2)


\* ------------------------------------------------------------ inputs
\* values np.exp(Op.vol * np.sqrt(dt)) takes for a positive volatility
UpVals == {R(2)}

\* values np.exp((r - Op.div_rate) * dt) takes; with u = 2 they give
\* p = 0, 1/2, 1 and 3/2
GVals == {<<1, 2>>, <<5, 4>>, R(2), <<11, 4>>}

\* values np.exp(-r * dt) takes
DiscVals == {R(1), <<1, 2>>}

Styles == {"EU", "AM", "DNO"}

Flags == {"C", "P"}

Unset == <<>>

NoTree == [ok |-> FALSE, tstep |-> 0, u |-> NaN, d |-> NaN, p |-> NaN, disc |-> NaN]

NoResult == [kind |-> "none", val |-> <<>>]

Raised == [kind |-> "error", val |-> <<>>]

\* ------------------------------------------------- external collaborators
\* Option.value: the payoff at a terminal price
Value(o, s) ==
    IF o.cp = "C" THEN RMax(RSub(s, o.strike), R(0)) ELSE RMax(RSub(o.strike, s), R(0))

\* Black_Scholes_Pricing(Op, r): a price that depends on the contract's current
\* spot and maturity; "hi" lies above the intrinsic value, "lo" below it when
\* the contract is in the money
Black_Scholes_Pricing(o, kind) ==
    LET intr == IF o.cp = "C" THEN RSub(o.spot, o.strike) ELSE RSub(o.strike, o.spot)
        pos == RMax(intr, R(0))
    IN  IF kind = "hi" THEN RAdd(pos, o.maturity)
        ELSE RDiv(RAdd(pos, o.maturity), RAdd(R(2), o.maturity))

\* ------------------------------------------------------- BinomialTree
\* BinomialTree.__init__: N = 0 raises ZeroDivisionError (ok = FALSE); N < 0
\* makes dt negative and np.sqrt(dt) nan; u = d divides by zero in numpy
\* arithmetic, which yields a non-finite p and raises nothing
BinomialTree(N, T, eu, g, dc) ==
    IF N = 0 THEN NoTree
    ELSE IF N < 0 THEN [ok |-> TRUE, tstep |-> N, u |-> NaN, d |-> NaN, p |-> NaN, disc |-> dc]
    ELSE LET u == eu
             d == RDiv(R(1), u)
         IN  [ok |-> TRUE, tstep |-> N, u |-> u, d |-> d,
              p |-> RDiv(RSub(g, d), RSub(u, d)), disc |-> dc]

\* fs[i] of finalvalue: fs[0] = u ** N * spot, fs[i] = fs[i - 1] * d / u
RECURSIVE fs(_, _, _)
fs(lat, o, k) ==
    IF k = 0 THEN RMul(RPow(lat.u, lat.tstep), o.spot)
    ELSE RDiv(RMul(fs(lat, o, k - 1), lat.d), lat.u)

\* BinomialTree.finalvalue
finalvalue(lat, o) == [k \in 0..lat.tstep |-> Value(o, fs(lat, o, k))]

\* ------------------------------------------------ Binomial_Tree_Pricing
\* np.exp(-r * dt) * (p * fv[i] + (1 - p) * fv[i + 1])
Continuation(lat, a, b) ==
    RMul(lat.disc, RAdd(RMul(lat.p, a), RMul(RSub(R(1), lat.p), b)))

\* Sc = S0 * u ** (j - i) * d ** i
Sc(lat, S0, jj, ii) == RMul(RMul(S0, RPow(lat.u, jj - ii)), RPow(lat.d, ii))

\* the early-exercise comparison with min in place of max
AmericanMin(v, intr) == RMin(v, intr)

\* max(continuation, intrinsic) of the American branches
American(v, intr) == RMax(v, intr)

\* the knock-out factor with the barrier never applied
KnockOutNever(sc, B) == R(1)

\* int(Sc > B) of the down-and-out branches
KnockOut(sc, B) == IF RLt(B, sc) THEN R(1) ELSE R(0)

Intrinsic(o, sc) == IF o.cp = "C" THEN RSub(sc, o.strike) ELSE RSub(o.strike, sc)

\* the new fv[i] of one pass of the inner loop, from fv[i] = a and fv[i + 1] = b
NodeValue(lat, o, S0, a, b, jj, ii) ==
    LET V == Continuation(lat, a, b)
    IN  CASE o.ae = "EU" -> V
          [] o.ae = "AM" -> American(V, Intrinsic(o, Sc(lat, S0, jj, ii)))
          [] o.ae = "DNO" -> RMul(V, KnockOut(Sc(lat, S0, jj, ii), o.Barrier))
          [] OTHER -> a

\* the inner loop's pass reading the neighbour below index i (index -1 wraps)
InPlaceNodeWrongNeighbour(lat, o, S0, buf, jj, ii) ==
    LET lo == IF ii = 0 THEN buf[lat.tstep] ELSE buf[ii - 1]
    IN  [buf EXCEPT ![ii] = NodeValue(lat, o, S0, buf[ii], lo, jj, ii)]

\* one pass of the inner loop: fv[i] overwritten in place
InPlaceNode(lat, o, S0, buf, jj, ii) ==
    [buf EXCEPT ![ii] = NodeValue(lat, o, S0, buf[ii], buf[ii + 1], jj, ii)]

\* the Greeks of the return statement, from the two snapshots
Greeks(lat, S0, T, root, s1, s2) ==
    LET dt == RDiv(T, R(lat.tstep))
        fs1 == <<RMul(S0, lat.u), RMul(S0, lat.d)>>
        fs2 == <<RMul(S0, RPow(lat.u, 2)), RMul(RMul(S0, lat.u), lat.d), RMul(S0, RPow(lat.d, 2))>>
        Delta == RDiv(RSub(s1[1], s1[2]), RSub(fs1[1], fs1[2]))
        Gamma == RDiv(RSub(RDiv(RSub(s2[1], s2[2]), RSub(fs2[1], fs2[2])),
                           RDiv(RSub(s2[2], s2[3]), RSub(fs2[2], fs2[3]))),
                      RDiv(RSub(fs2[1], fs2[3]), R(2)))
        Theta == RDiv(RSub(s2[2], root), RMul(R(2), dt))
    IN  <<root, Delta, Gamma, Theta>>

\* the return statement: a NameError when a snapshot was never taken
Return(lat, S0, T, greek, root, s1, s2) ==
    IF ~greek THEN [kind |-> "value", val |-> <<root>>]
    ELSE IF s1 = Unset \/ s2 = Unset THEN Raised
    ELSE [kind |-> "tuple", val |-> Greeks(lat, S0, T, root, s1, s2)]


\* ---------------------------------------------- Binomial_Black_Scholes
\* max(closed-form price, intrinsic) of the synthetic layer's American branch
HybridAmerican(bs, intr) == RMax(bs, intr)

\* fv[i] of the synthetic layer for i >= 1, from the mutated contract o
SyntheticNode(o, K, kind, old) ==
    CASE o.ae = "EU" -> Black_Scholes_Pricing(o, kind)
      [] o.ae = "AM" ->
           HybridAmerican(Black_Scholes_Pricing(o, kind),
                          IF o.cp = "C" THEN RSub(o.spot, K) ELSE RSub(K, o.spot))
      [] OTHER -> old

\* whether the loop body of the synthetic layer calls the closed-form pricer
CallsPricer(o) == o.ae \in {"EU", "AM"}

\* the new fv[i] of one pass of the hybrid sweep's inner loop
HybridNodeValue(lat, o, S0, K, a, b, jj, ii) ==
    LET V == Continuation(lat, a, b)
        s == Sc(lat, S0, jj, ii)
    IN  CASE o.ae = "EU" -> V
          [] o.ae = "AM" -> RMax(V, IF o.cp = "C" THEN RSub(s, K) ELSE RSub(K, s))
          [] OTHER -> a

\* Op.spot = S0; Op.maturity = T, with the maturity left as it is
RestoreSpotOnly(o, S0, T) == [o EXCEPT !.spot = S0]

\* Op.spot = S0; Op.maturity = T
Restore(o, S0, T) == [o EXCEPT !.spot = S0, !.maturity = T]

\* ------------------------------------------------------ the compositors
\* (old[i] + new[i]) / 2
Mean(x, y) == RDiv(RAdd(x, y), R(2))

\* the extrapolation with the weights swapped
ExtrapolateSwapped(x, y) == RSub(RMul(y, R(2)), x)

\* full[i] * 2 - half[i]
Extrapolate(x, y) == RSub(RMul(x, R(2)), y)

\* what Avg_Binomial_Tree_Pricing returns from its two results: the scalar
\* mean, or the tuple of the four means
Average(a, b) ==
    [kind |-> a.kind, val |-> [k \in 1..Len(a.val) |-> Mean(a.val[k], b.val[k])]]

\* what Binomial_Black_Scholes_Richardson returns from its two results
Richardson(a, b) ==
    [kind |-> a.kind, val |-> [k \in 1..Len(a.val) |-> Extrapolate(a.val[k], b.val[k])]]

\* ------------------------------------------------------------- state
VARIABLES
    arg,        \* the client's request: N, Greek, entry point, the exp() values, the pricer kind
    Op,         \* the contract object (spot and maturity are mutated by the hybrid pricer)
    BMT,        \* the client's lattice
    BMT_aux,    \* BMT_1 of the averaging, BMT_2 of the extrapolation
    pc,         \* position in the running call
    phase,      \* 0: a direct engine call; 1, 2: first, second call of a compositor
    lat,        \* the lattice of the running engine call
    loc,        \* the engine call's locals S0, K, T read on entry
    fv,         \* the value buffer
    j, i,       \* the loops' indices
    fv1, fv2,   \* the snapshots of depth 1 and depth 2
    sub,        \* what the compositor's finished engine calls returned
    result,     \* what the client gets: a value, a tuple or an exception
    rd,         \* the buffer indices read by the last pass of an inner loop
    pricerFailed, \* whether the closed-form pricer raised
    Op0         \* the contract as the client built it

vars == <<arg, Op, BMT, BMT_aux, pc, phase, lat, loc, fv, j, i, fv1, fv2, sub, result, rd, pricerFailed, Op0>>

Contracts(S0s, Ks) ==
    {[spot |-> s, strike |-> k, maturity |-> R(1), cp |-> c, ae |-> a, Barrier |-> b] :
        s \in S0s, k \in Ks, c \in Flags, a \in {"EU", "AM"}, b \in {R(0)}}
    \cup
    {[spot |-> s, strike |-> k, maturity |-> R(1), cp |-> c, ae |-> "DNO", Barrier |-> b] :
        s \in S0s, k \in Ks, c \in Flags, b \in {R(1), R(3)}}

\* requests to the plain and the averaged pricer, with every lattice numeric
PlainArgs ==
    [N : -1..MaxN, Greek : BOOLEAN, entry : {"BTP", "AVG"}, eu : UpVals \cup {R(1)},
     g : GVals, disc : DiscVals, kind : {"hi"}]

\* requests to the hybrid pricer and its extrapolation, with p = 1/2 and no discounting
HybridArgs ==
    [N : -1..MaxDeepN, Greek : BOOLEAN, entry : {"BBS", "BBSR"}, eu : UpVals,
     g : {<<5, 4>>}, disc : {R(1)}, kind : {"hi", "lo"}]

Init ==
    /\ \/ arg \in PlainArgs /\ Op \in Contracts({R(4)}, {R(3)})
       \/ arg \in HybridArgs /\ Op \in Contracts({R(4)}, {R(6)})
    /\ BMT = NoTree
    /\ BMT_aux = NoTree
    /\ pc = "start"
    /\ phase = 0
    /\ lat = NoTree
    /\ loc = [S0 |-> Op.spot, K |-> Op.strike, T |-> Op.maturity]
    /\ fv = <<>>
    /\ j = 0
    /\ i = 0
    /\ fv1 = Unset
    /\ fv2 = Unset
    /\ sub = <<>>
    /\ result = NoResult
    /\ rd = {}
    /\ pricerFailed = FALSE
    /\ Op0 = Op



\* ------------------------------------------------------------ actions
Fail ==
    /\ result' = Raised
    /\ pc' = "done"

\* an engine call returns res: to the client, or to the compositor that called it
Deliver(res, first) ==
    IF res.kind = "error" THEN Fail /\ UNCHANGED <<phase, lat, sub>>
    ELSE IF phase = 0 THEN
        /\ result' = res
        /\ pc' = "done"
        /\ UNCHANGED <<phase, lat, sub>>
    ELSE IF phase = 1 THEN
        /\ sub' = <<res>>
        /\ phase' = 2
        /\ lat' = BMT_aux
        /\ pc' = first
        /\ UNCHANGED result
    ELSE
        /\ sub' = Append(sub, res)
        /\ result' = IF arg.entry = "AVG" THEN Average(sub[1], res)
                     ELSE Richardson(sub[1], res)
        /\ pc' = "done"
        /\ UNCHANGED <<phase, lat>>

\* the client builds its lattice: BinomialTree(N, r, Op)
Construct ==
    /\ pc = "start"
    /\ BMT' = BinomialTree(arg.N, Op.maturity, arg.eu, arg.g, arg.disc)
    /\ IF BMT'.ok THEN pc' = "built" /\ UNCHANGED result ELSE Fail
    /\ UNCHANGED <<arg, Op, BMT_aux, phase, lat, loc, fv, j, i, fv1, fv2, sub, rd, pricerFailed, Op0>>

\* the lattices the client prices on: finite u, d, p with u # d, or N < 0
Usable(t) == t.ok /\ (t.tstep < 0 \/ (Finite(t.p) /\ t.u # t.d))

\* Binomial_Tree_Pricing(Op, BMT, Greek) called by the client
CallBTP ==
    /\ pc = "built" /\ arg.entry = "BTP" /\ Usable(BMT)
    /\ pc' = "btp_final"
    /\ lat' = BMT
    /\ phase' = 0
    /\ UNCHANGED <<arg, Op, BMT, BMT_aux, loc, fv, j, i, fv1, fv2, sub, result, rd, pricerFailed, Op0>>

\* Avg_Binomial_Tree_Pricing: BMT_1 is built, then the first engine call starts
CallAvg ==
    /\ pc = "built" /\ arg.entry = "AVG" /\ Usable(BMT)
    /\ \E eu \in UpVals, g \in GVals, dc \in DiscVals :
          BMT_aux' = BinomialTree(BMT.tstep + 1, Op.maturity, eu, g, dc)
    /\ IF BMT_aux'.ok
       THEN pc' = "btp_final" /\ lat' = BMT /\ phase' = 1 /\ UNCHANGED result
       ELSE Fail /\ UNCHANGED <<lat, phase>>
    /\ UNCHANGED <<arg, Op, BMT, loc, fv, j, i, fv1, fv2, sub, rd, pricerFailed, Op0>>

\* Binomial_Black_Scholes(Op, BMT, Greek) called by the client
CallBBS ==
    /\ pc = "built" /\ arg.entry = "BBS" /\ Usable(BMT)
    /\ pc' = "bbs_init"
    /\ lat' = BMT
    /\ phase' = 0
    /\ UNCHANGED <<arg, Op, BMT, BMT_aux, loc, fv, j, i, fv1, fv2, sub, result, rd, pricerFailed, Op0>>

\* Binomial_Black_Scholes_Richardson: BMT_2 is built, then the first engine call starts
CallBBSR ==
    /\ pc = "built" /\ arg.entry = "BBSR" /\ Usable(BMT)
    /\ \E eu \in UpVals, g \in GVals, dc \in DiscVals :
          BMT_aux' = BinomialTree(IntHalf(BMT.tstep), Op.maturity, eu, g, dc)
    /\ IF BMT_aux'.ok
       THEN pc' = "bbs_init" /\ lat' = BMT /\ phase' = 1 /\ UNCHANGED result
       ELSE Fail /\ UNCHANGED <<lat, phase>>
    /\ UNCHANGED <<arg, Op, BMT, loc, fv, j, i, fv1, fv2, sub, rd, pricerFailed, Op0>>

\* Binomial_Tree_Pricing up to the loops: the locals, then BMT.finalvalue(Op);
\* np.zeros([N + 1, 1]) holds no fs[0] (or raises) when N < 0
BTP_Final ==
    /\ pc = "btp_final"
    /\ loc' = [S0 |-> Op.spot, K |-> Op.strike, T |-> Op.maturity]
    /\ IF lat.tstep < 0
       THEN Fail /\ UNCHANGED <<fv, j, i, fv1, fv2>>
       ELSE /\ fv' = finalvalue(lat, Op)
            /\ j' = lat.tstep - 1
            /\ i' = 0
            /\ fv1' = Unset
            /\ fv2' = Unset
            /\ pc' = "btp_sweep"
            /\ UNCHANGED result
    /\ rd' = {}
    /\ UNCHANGED <<arg, Op, BMT, BMT_aux, phase, lat, sub, pricerFailed, Op0>>

\* one pass of the inner loop of the backward sweep
BTP_Node ==
    /\ pc = "btp_sweep" /\ j >= 0 /\ i <= j
    /\ fv' = InPlaceNode(lat, Op, loc.S0, fv, j, i)
    /\ rd' = {i, i + 1}
    /\ i' = i + 1
    /\ UNCHANGED <<arg, Op, BMT, BMT_aux, pc, phase, lat, loc, j, fv1, fv2, sub, result, pricerFailed, Op0>>

\* the end of the outer loop's body: the snapshots at j = 2 and j = 1
BTP_EndLayer ==
    /\ pc = "btp_sweep" /\ j >= 0 /\ i = j + 1
    /\ fv2' = IF j = 2 THEN <<fv[0], fv[1], fv[2]>> ELSE fv2
    /\ fv1' = IF j = 1 THEN <<fv[0], fv[1]>> ELSE fv1
    /\ j' = j - 1
    /\ i' = 0
    /\ pc' = IF j = 0 THEN "btp_ret" ELSE "btp_sweep"
    /\ rd' = IF j \in {1, 2} THEN 0..j ELSE {}
    /\ UNCHANGED <<arg, Op, BMT, BMT_aux, phase, lat, loc, fv, sub, result, pricerFailed, Op0>>

\* the return statement of Binomial_Tree_Pricing
BTP_Return ==
    /\ pc = "btp_ret"
    /\ Deliver(Return(lat, loc.S0, loc.T, arg.Greek, fv[0], fv1, fv2), "btp_final")
    /\ UNCHANGED <<arg, Op, BMT, BMT_aux, loc, fv, j, i, fv1, fv2, rd, pricerFailed, Op0>>

\* where the hybrid pricer goes after node k of the synthetic layer
AfterNode(k, N) == IF k < N - 1 THEN "bbs_layer" ELSE IF N >= 2 THEN "bbs_sweep" ELSE "bbs_ret"

\* Binomial_Black_Scholes up to node 0 of the synthetic layer: np.zeros([N, 1])
\* raises when N < 0; the contract is overwritten and the pricer called
BBS_Init ==
    /\ pc = "bbs_init"
    /\ loc' = [S0 |-> Op.spot, K |-> Op.strike, T |-> Op.maturity]
    /\ rd' = {}
    /\ IF lat.tstep < 0
       THEN Fail /\ UNCHANGED <<Op, fv, j, i, fv1, fv2, pricerFailed>>
       ELSE /\ Op' = [Op EXCEPT !.maturity = RDiv(Op.maturity, R(lat.tstep)),
                                !.spot = RMul(RPow(lat.u, lat.tstep - 1), Op.spot)]
            /\ fv1' = Unset
            /\ fv2' = Unset
            /\ j' = lat.tstep - 2
            /\ \/ /\ fv' = [k \in 0..(lat.tstep - 1) |->
                               IF k = 0 THEN Black_Scholes_Pricing(Op', arg.kind) ELSE R(0)]
                  /\ i' = IF lat.tstep > 1 THEN 1 ELSE 0
                  /\ pc' = AfterNode(0, lat.tstep)
                  /\ UNCHANGED <<result, pricerFailed>>
               \/ /\ pricerFailed' = TRUE
                  /\ Fail
                  /\ UNCHANGED <<fv, i>>
    /\ UNCHANGED <<arg, BMT, BMT_aux, phase, lat, sub, Op0>>

\* node i >= 1 of the synthetic layer: Op.spot *= d / u, then fv[i]
BBS_Layer ==
    /\ pc = "bbs_layer"
    /\ Op' = [Op EXCEPT !.spot = RDiv(RMul(Op.spot, lat.d), lat.u)]
    /\ \/ /\ fv' = [fv EXCEPT ![i] = SyntheticNode(Op', loc.K, arg.kind, fv[i])]
          /\ i' = IF i < lat.tstep - 1 THEN i + 1 ELSE 0
          /\ pc' = AfterNode(i, lat.tstep)
          /\ UNCHANGED <<result, pricerFailed>>
       \/ /\ CallsPricer(Op)
          /\ pricerFailed' = TRUE
          /\ Fail
          /\ UNCHANGED <<fv, i>>
    /\ UNCHANGED <<arg, BMT, BMT_aux, phase, lat, loc, j, fv1, fv2, sub, rd, Op0>>

\* one pass of the inner loop of the hybrid pricer's backward sweep
BBS_Node ==
    /\ pc = "bbs_sweep" /\ j >= 0 /\ i <= j
    /\ fv' = [fv EXCEPT ![i] = HybridNodeValue(lat, Op, loc.S0, loc.K, fv[i], fv[i + 1], j, i)]
    /\ rd' = {i, i + 1}
    /\ i' = i + 1
    /\ UNCHANGED <<arg, Op, BMT, BMT_aux, pc, phase, lat, loc, j, fv1, fv2, sub, result, pricerFailed, Op0>>

\* the end of the hybrid sweep's outer loop body: the snapshots at j = 2 and j = 1
BBS_EndLayer ==
    /\ pc = "bbs_sweep" /\ j >= 0 /\ i = j + 1
    /\ fv2' = IF j = 2 THEN <<fv[0], fv[1], fv[2]>> ELSE fv2
    /\ fv1' = IF j = 1 THEN <<fv[0], fv[1]>> ELSE fv1
    /\ j' = j - 1
    /\ i' = 0
    /\ pc' = IF j = 0 THEN "bbs_ret" ELSE "bbs_sweep"
    /\ rd' = IF j \in {1, 2} THEN 0..j ELSE {}
    /\ UNCHANGED <<arg, Op, BMT, BMT_aux, phase, lat, loc, fv, sub, result, pricerFailed, Op0>>

\* Op.spot = S0; Op.maturity = T; then the return statement
BBS_Return ==
    /\ pc = "bbs_ret"
    /\ Op' = Restore(Op, loc.S0, loc.T)
    /\ Deliver(Return(lat, loc.S0, loc.T, arg.Greek, fv[0], fv1, fv2), "bbs_init")
    /\ UNCHANGED <<arg, BMT, BMT_aux, loc, fv, j, i, fv1, fv2, rd, pricerFailed, Op0>>

Next ==
    \/ Construct
    \/ CallBTP
    \/ CallAvg
    \/ CallBBS
    \/ CallBBSR
    \/ BTP_Final
    \/ BTP_Node
    \/ BTP_EndLayer
    \/ BTP_Return
    \/ BBS_Init
    \/ BBS_Layer
    \/ BBS_Node
    \/ BBS_EndLayer
    \/ BBS_Return

Spec == Init /\ [][Next]_vars


\* ------------------------------------------------- reference recursions
\* one layer of the fresh-buffer recursion, nodes k..jj, from the layer below
RECURSIVE RefNodes(_, _, _, _, _)
RefNodes(t, o, up, jj, k) ==
    IF k > jj THEN <<>>
    ELSE <<NodeValue(t, o, o.spot, up[k + 1], up[k + 2], jj, k)>> \o RefNodes(t, o, up, jj, k + 1)

\* the terminal payoffs of nodes k..N, at the prices S0 * u ** (N - k) * d ** k
RECURSIVE RefTerminal(_, _, _)
RefTerminal(t, o, k) ==
    IF k > t.tstep THEN <<>>
    ELSE <<Value(o, Sc(t, o.spot, t.tstep, k))>> \o RefTerminal(t, o, k + 1)

\* the backward recursion with a fresh buffer per layer: layer jj of the
\* lattice t for the contract o, as the sequence of its nodes 0..jj
RECURSIVE RefLayer(_, _, _)
RefLayer(t, o, jj) ==
    IF jj >= t.tstep THEN RefTerminal(t, o, 0)
    ELSE RefNodes(t, o, RefLayer(t, o, jj + 1), jj, 0)

\* node k of a reference layer
At(layer, k) == layer[k + 1]

\* the contract with the European style and nothing else changed
EuTwin(o) == [o EXCEPT !.ae = "EU"]

\* the contract the synthetic layer's node k is priced on
NodeContract(t, o, k) ==
    [o EXCEPT !.maturity = RDiv(o.maturity, R(t.tstep)),
              !.spot = Sc(t, o.spot, t.tstep - 1, k)]

\* the synthetic layer's nodes k..N-1, each priced on its own contract
RECURSIVE HybridRefTop(_, _, _)
HybridRefTop(t, o, k) ==
    IF k > t.tstep - 1 THEN <<>>
    ELSE <<IF k = 0 THEN Black_Scholes_Pricing(NodeContract(t, o, 0), arg.kind)
           ELSE SyntheticNode(NodeContract(t, o, k), o.strike, arg.kind, R(0))>>
         \o HybridRefTop(t, o, k + 1)

\* one layer of the hybrid fresh-buffer recursion, nodes k..jj
RECURSIVE HybridRefNodes(_, _, _, _, _)
HybridRefNodes(t, o, up, jj, k) ==
    IF k > jj THEN <<>>
    ELSE <<HybridNodeValue(t, o, o.spot, o.strike, up[k + 1], up[k + 2], jj, k)>>
         \o HybridRefNodes(t, o, up, jj, k + 1)

\* the hybrid recursion with a fresh buffer per layer
RECURSIVE HybridRefLayer(_, _, _)
HybridRefLayer(t, o, jj) ==
    IF jj >= t.tstep - 1 THEN HybridRefTop(t, o, 0)
    ELSE HybridRefNodes(t, o, HybridRefLayer(t, o, jj + 1), jj, 0)

\* H(n): what Binomial_Black_Scholes returns on the lattice t for the
\* client's contract (the price alone, or the price and the Greeks of the
\* reference layers 1 and 2, which exist when t.tstep >= 4)
H(t) ==
    LET l2 == HybridRefLayer(t, Op0, 2)
        l1 == HybridRefNodes(t, Op0, l2, 1, 0)
        root == At(HybridRefNodes(t, Op0, l1, 0, 0), 0)
    IN  IF arg.Greek THEN Greeks(t, Op0.spot, Op0.maturity, root, l1, l2)
        ELSE <<At(HybridRefLayer(t, Op0, 0), 0)>>

Unit(x) == RLe(R(0), x) /\ RLe(x, R(1))

Returned == pc = "done" /\ result.kind \in {"value", "tuple"}

Untouched == Op.spot = Op0.spot /\ Op.maturity = Op0.maturity

\* the inner loop of depth j of Binomial_Tree_Pricing has finished
LayerDone == pc = "btp_sweep" /\ j >= 0 /\ i = j + 1

\* the synthetic layer of Binomial_Black_Scholes is complete
LayerBuilt == pc \in {"bbs_sweep", "bbs_ret"} /\ j = lat.tstep - 2 /\ i = 0


\* ------------------------------------------------------------- claims

\* C1: whenever one of the four pricing entry points returns normally, with
\* or without Greeks, the contract's spot and maturity are what they were
\* before the call; the second hybrid evaluation inside the extrapolation
\* (and the second sweep inside the averaging) starts from the original spot
\* and maturity.
C1_ContractRestored ==
    /\ Returned => Untouched
    /\ (phase = 2 /\ pc \in {"bbs_init", "btp_final"}) => Untouched

\* a normal return of the extrapolation with Greeks: both hybrid evaluations
\* overwrote the contract and put it back
C1_Witness ==
    /\ Returned /\ arg.entry = "BBSR" /\ result.kind = "tuple"
    /\ Len(sub) = 2 /\ Untouched

\* C2: Binomial_Tree_Pricing with Greeks requested returns the 4-tuple for
\* every N >= 2 and raises for every N < 2.
C2_GreeksFromTwoSteps ==
    (pc = "done" /\ arg.entry = "BTP" /\ arg.Greek) =>
        (result.kind = "tuple" <=> arg.N >= 2)

\* C3: in Binomial_Black_Scholes with American style every node of the
\* complete synthetic layer, node 0 included, holds the larger of the
\* closed-form price and the intrinsic value at that node's spot.
C3_SyntheticLayerAmerican ==
    (LayerBuilt /\ Op.ae = "AM") =>
        \A k \in 0..(lat.tstep - 1) :
            LET n == NodeContract(lat, Op0, k)
            IN  fv[k] = RMax(Black_Scholes_Pricing(n, arg.kind), Intrinsic(n, n.spot))

\* C4 as stated: with no assumption on p, at every depth of the sweep (the
\* root included) each node of the American contract is worth at least the
\* same node of its European twin.
C4_AmericanDominatesAnyP ==
    (LayerDone /\ Op.ae = "AM") =>
        LET eu == RefLayer(lat, EuTwin(Op), j)
        IN  \A k \in 0..j : RLe(At(eu, k), fv[k])

\* C4 as amended: when the risk-neutral probability p lies in [0, 1], at
\* every depth of the sweep (the root included) each node of the American
\* contract is worth at least the same node of its European twin.
C4_AmericanDominates ==
    (LayerDone /\ Op.ae = "AM" /\ Unit(lat.p)) =>
        LET eu == RefLayer(lat, EuTwin(Op), j)
        IN  \A k \in 0..j : RLe(At(eu, k), fv[k])

\* the root of a lattice of two or more steps with 0 <= p <= 1, where the
\* American price is strictly above the European one
C4_Witness ==
    /\ LayerDone /\ Op.ae = "AM" /\ Unit(lat.p) /\ j = 0 /\ lat.tstep >= 2
    /\ RLt(At(RefLayer(lat, EuTwin(Op), 0), 0), fv[0])

\* C5 as stated: on any lattice the down-and-out root price lies between 0
\* and the European root price, and every node of depth j < N whose price is
\* not above the barrier is worth exactly 0, for calls and puts alike.
C5_KnockOutBoundsAnyP ==
    (LayerDone /\ Op.ae = "DNO") =>
        /\ \A k \in 0..j : RLe(Sc(lat, loc.S0, j, k), Op.Barrier) => fv[k] = R(0)
        /\ j = 0 => (RLe(R(0), fv[0]) /\ RLe(fv[0], At(RefLayer(lat, EuTwin(Op), 0), 0)))

\* C5 as amended: every node of depth j < N whose price is not above the
\* barrier is worth exactly 0, for calls and puts alike, on any lattice; when
\* the risk-neutral probability p lies in [0, 1] the down-and-out root price
\* lies between 0 and the European root price.
C5_KnockOutBounds ==
    (LayerDone /\ Op.ae = "DNO") =>
        /\ \A k \in 0..j : RLe(Sc(lat, loc.S0, j, k), Op.Barrier) => fv[k] = R(0)
        /\ (j = 0 /\ Unit(lat.p)) =>
               (RLe(R(0), fv[0]) /\ RLe(fv[0], At(RefLayer(lat, EuTwin(Op), 0), 0)))

\* a root above the barrier, 0 <= p <= 1, where a knocked-out node below has
\* made the down-and-out price positive and strictly less than the European one
C5_Witness ==
    /\ LayerDone /\ Op.ae = "DNO" /\ Unit(lat.p) /\ j = 0
    /\ RLt(R(0), fv[0])
    /\ RLt(fv[0], At(RefLayer(lat, EuTwin(Op), 0), 0))

\* C6: building a BinomialTree raises whenever N <= 0 or u = d, and for
\* N >= 1 with u # d it succeeds with d * u = 1 and
\* p = (exp((r - q) * dt) - d) / (u - d).
C6_BuilderDomain ==
    pc # "start" =>
        IF arg.N <= 0 \/ arg.eu = R(1) THEN ~BMT.ok
        ELSE /\ BMT.ok
             /\ RMul(BMT.d, BMT.u) = R(1)
             /\ BMT.p = RDiv(RSub(arg.g, BMT.d), RSub(BMT.u, BMT.d))

\* C7 as stated: when the closed-form pricer does not fail, the extrapolation
\* returns 2 * H(N) - H(floor(N / 2)) for every N >= 2, with or without
\* Greeks, and raises for N < 2.
C7_RichardsonFromTwoSteps ==
    (pc = "done" /\ arg.entry = "BBSR" /\ ~pricerFailed) =>
        IF arg.N >= 2
        THEN /\ result.kind = (IF arg.Greek THEN "tuple" ELSE "value")
             /\ BMT_aux.tstep = arg.N \div 2
             /\ result.val = [k \in 1..Len(result.val) |->
                                 RSub(RMul(R(2), H(BMT)[k]), H(BMT_aux)[k])]
        ELSE result.kind = "error"

\* C7 as amended: when the closed-form pricer does not fail, the
\* extrapolation returns 2 * H(N) - H(floor(N / 2)), a scalar for every
\* N >= 2 when Greeks are not requested and element-wise over the 4-tuple
\* for every N >= 8 when they are; it raises otherwise (N < 2, or Greeks
\* requested with N < 8).
C7_Richardson ==
    (pc = "done" /\ arg.entry = "BBSR" /\ ~pricerFailed) =>
        IF arg.N >= 2 /\ (arg.Greek => arg.N >= 8)
        THEN /\ result.kind = (IF arg.Greek THEN "tuple" ELSE "value")
             /\ BMT_aux.tstep = arg.N \div 2
             /\ result.val = [k \in 1..Len(result.val) |->
                                 RSub(RMul(R(2), H(BMT)[k]), H(BMT_aux)[k])]
        ELSE result.kind = "error"

\* the extrapolated 4-tuple of an 8-step lattice, different from H(8)
C7_Witness ==
    /\ pc = "done" /\ arg.entry = "BBSR" /\ ~pricerFailed /\ arg.Greek
    /\ result.kind = "tuple"
    /\ result.val # H(BMT)

\* C8: the in-place sweep of Binomial_Tree_Pricing agrees with the recursion
\* on a fresh buffer per layer, for every style: during depth j the entries
\* below i hold layer j and the entries i..j+1 still hold layer j+1, so at
\* the end of the inner loop fv[0..j] is layer j; a pass reads no index above
\* j+1; the snapshots the return statement uses are layers 1 and 2 of the
\* reference.
C8_InPlaceSweep ==
    /\ (pc = "btp_sweep" /\ j >= 0) =>
          LET prev == RefLayer(lat, Op, j + 1)
              cur == RefNodes(lat, Op, prev, j, 0)
          IN  /\ \A k \in 0..(i - 1) : fv[k] = At(cur, k)
              /\ \A k \in i..(j + 1) : fv[k] = At(prev, k)
              /\ rd \subseteq 0..(j + 1)
              /\ i > 0 => rd = {i - 1, i}
    /\ pc = "btp_ret" =>
          LET l2 == RefLayer(lat, Op, 2)
              l1 == RefLayer(lat, Op, 1)
          IN  /\ fv1 # Unset => fv1 = l1
              /\ fv2 # Unset => fv2 = l2

\* the root of a three-step sweep, both snapshots taken, with a stale entry
\* left at index 1 that differs from the root
C8_Witness ==
    /\ LayerDone /\ j = 0 /\ lat.tstep = 3
    /\ fv1 # Unset /\ fv2 # Unset
    /\ fv[1] # fv[0] /\ fv[0] # R(0)

\* C9: when Binomial_Black_Scholes or its extrapolation ends with an
\* exception, the contract's spot and maturity are what they were before the
\* call.
C9_RestoredOnError ==
    (pc = "done" /\ arg.entry \in {"BBS", "BBSR"} /\ result.kind = "error") => Untouched

\* C10: Binomial_Black_Scholes and its extrapolation, called with a
\* down-and-out contract on a lattice of N >= 1 steps, end with an exception.
C10_DownAndOutRejected ==
    (pc = "done" /\ arg.entry \in {"BBS", "BBSR"} /\ Op.ae = "DNO" /\ arg.N >= 1) =>
        result.kind = "error"

====
